---- MODULE Spec2Model ----
(***************************************************************************)
(* Model of predict_quit_next_5d ("Game Model promt/main.py"): a pure       *)
(* function from four player signals to a churn label, a probability and   *)
(* a list of factor strings.                                               *)
(*                                                                         *)
(* The function computes in IEEE-754 binary64 (Python float).  A float is  *)
(* modelled exactly, as a sign, a 53-bit mantissa and an exponent; every   *)
(* operation computes the exact result and rounds it to 53 significant     *)
(* bits, ties to even, as the hardware does.  TLC's integers are 32 bits   *)
(* wide, so a mantissa (and the wider exact results) is held as eight      *)
(* limbs of 14 bits, the least significant first.                          *)
(***************************************************************************)
EXTENDS Integers, Sequences, FiniteSets, TLC

(***************************************************************************)
(* Naturals below 2^112: eight limbs in base 2^14.  The operations are     *)
(* functions, so that TLC evaluates each argument once, before the call.   *)
(***************************************************************************)
LimbBits == 14
Base == 2 ^ LimbBits

Wide == Seq(Nat)

Limb(a, i) == IF i >= 1 /\ i <= 8 THEN a[i] ELSE 0

WZero == <<0, 0, 0, 0, 0, 0, 0, 0>>
WOne  == <<1, 0, 0, 0, 0, 0, 0, 0>>

\* a + b
WAdd[a \in Wide, b \in Wide] ==
  LET s1 == a[1] + b[1]
      s2 == a[2] + b[2] + (s1 \div Base)
      s3 == a[3] + b[3] + (s2 \div Base)
      s4 == a[4] + b[4] + (s3 \div Base)
      s5 == a[5] + b[5] + (s4 \div Base)
      s6 == a[6] + b[6] + (s5 \div Base)
      s7 == a[7] + b[7] + (s6 \div Base)
      s8 == a[8] + b[8] + (s7 \div Base)
  IN  <<s1 % Base, s2 % Base, s3 % Base, s4 % Base,
        s5 % Base, s6 % Base, s7 % Base, s8 % Base>>

\* a - b, for a >= b (\div rounds down: a borrow is a carry of -1)
WSub[a \in Wide, b \in Wide] ==
  LET s1 == a[1] - b[1]
      s2 == a[2] - b[2] + (s1 \div Base)
      s3 == a[3] - b[3] + (s2 \div Base)
      s4 == a[4] - b[4] + (s3 \div Base)
      s5 == a[5] - b[5] + (s4 \div Base)
      s6 == a[6] - b[6] + (s5 \div Base)
      s7 == a[7] - b[7] + (s6 \div Base)
      s8 == a[8] - b[8] + (s7 \div Base)
  IN  <<s1 % Base, s2 % Base, s3 % Base, s4 % Base,
        s5 % Base, s6 % Base, s7 % Base, s8 % Base>>

\* a * k, for k < 2^16
WMulSmall[a \in Wide, k \in Nat] ==
  LET s1 == a[1] * k
      s2 == a[2] * k + (s1 \div Base)
      s3 == a[3] * k + (s2 \div Base)
      s4 == a[4] * k + (s3 \div Base)
      s5 == a[5] * k + (s4 \div Base)
      s6 == a[6] * k + (s5 \div Base)
      s7 == a[7] * k + (s6 \div Base)
      s8 == a[8] * k + (s7 \div Base)
  IN  <<s1 % Base, s2 % Base, s3 % Base, s4 % Base,
        s5 % Base, s6 % Base, s7 % Base, s8 % Base>>

\* a * b, for a and b below 2^56 (four limbs each)
WMul[a \in Wide, b \in Wide] ==
  LET c1 == a[1] * b[1]
      c2 == a[1] * b[2] + a[2] * b[1] + (c1 \div Base)
      c3 == a[1] * b[3] + a[2] * b[2] + a[3] * b[1] + (c2 \div Base)
      c4 == a[1] * b[4] + a[2] * b[3] + a[3] * b[2] + a[4] * b[1]
            + (c3 \div Base)
      c5 == a[2] * b[4] + a[3] * b[3] + a[4] * b[2] + (c4 \div Base)
      c6 == a[3] * b[4] + a[4] * b[3] + (c5 \div Base)
      c7 == a[4] * b[4] + (c6 \div Base)
  IN  <<c1 % Base, c2 % Base, c3 % Base, c4 % Base,
        c5 % Base, c6 % Base, c7 % Base, c7 \div Base>>

\* a * 2^k, for a result below 2^112
WShl[a \in Wide, k \in Nat] ==
  LET q == k \div LimbBits
      p == 2 ^ (k % LimbBits)
      L(i) == ((Limb(a, i - q) * p) % Base)
              + ((Limb(a, i - q - 1) * p) \div Base)
  IN  <<L(1), L(2), L(3), L(4), L(5), L(6), L(7), L(8)>>

\* a divided by 2^k, rounded down
WShr[a \in Wide, k \in Nat] ==
  LET q == k \div LimbBits
      p == 2 ^ (k % LimbBits)
      L(i) == (Limb(a, i + q) \div p)
              + ((Limb(a, i + q + 1) % p) * (Base \div p))
  IN  <<L(1), L(2), L(3), L(4), L(5), L(6), L(7), L(8)>>

\* down or down + 1, as the rounding goes up or not
WRoundUp[down \in Wide, up \in BOOLEAN] ==
  IF up /\ down[1] % 2 = 1 THEN WAdd[down, WOne]
  ELSE IF up THEN <<down[1] + 1, down[2], down[3], down[4],
                    down[5], down[6], down[7], down[8]>>
  ELSE down

\* (a + f) / 2^k for k >= 1, with 0 < f < 1 when sticky and f = 0 otherwise,
\* rounded to the nearest natural, a tie to the even one
WShrRound[a \in Wide, k \in Nat, sticky \in BOOLEAN] ==
  LET h    == (k - 1) \div LimbBits + 1
      p    == 2 ^ ((k - 1) % LimbBits)
      half == (Limb(a, h) \div p) % 2 = 1
      rest == \/ sticky
              \/ Limb(a, h) % p # 0
              \/ \E i \in 1..8 : i < h /\ a[i] # 0
      odd  == (Limb(a, (k \div LimbBits) + 1) \div (2 ^ (k % LimbBits))) % 2 = 1
  IN  WRoundUp[WShr[a, k], half /\ (rest \/ odd)]

\* -1, 0 or 1 as a < b, a = b or a > b
WCmp[a \in Wide, b \in Wide] ==
  LET D == {i \in 1..8 : a[i] # b[i]}
  IN  IF D = {} THEN 0
      ELSE IF \E i \in D : a[i] > b[i] /\ \A k \in D : k <= i THEN 1
      ELSE -1

\* the number of bits of a limb d > 0: n with 2^(n-1) <= d < 2^n
LimbBitLen[d \in Nat] ==
  CHOOSE n \in 1..LimbBits : 2 ^ (n - 1) <= d /\ d < 2 ^ n

\* the number of bits of a: 0 for 0, else n with 2^(n-1) <= a < 2^n
WBitLen[a \in Wide] ==
  IF a = WZero THEN 0
  ELSE LET i == CHOOSE k \in 1..8 : a[k] # 0 /\ \A j \in (k + 1)..8 : a[j] = 0
       IN  (i - 1) * LimbBits + LimbBitLen[a[i]]

(***************************************************************************)
(* binary64 arithmetic: the float [neg, m, e] is (-1)^neg * m * 2^e, with  *)
(* 2^52 <= m < 2^53, or m = 0 and e = 0                                    *)
(***************************************************************************)
MantBits == 53

Floats == [neg : BOOLEAN, m : Wide, e : Int]

\* r * 2^e, for r of MantBits bits, or 2^MantBits after a rounding up
Normal[neg \in BOOLEAN, r \in Wide, e \in Int] ==
  IF r[4] >= 2 ^ (MantBits + 1 - 3 * LimbBits)
  THEN [neg |-> neg, m |-> WShr[r, 1], e |-> e + 1]
  ELSE [neg |-> neg, m |-> r, e |-> e]

\* the float nearest to (w + f) * 2^e for w of n bits, ties to even, with
\* 0 < f < 1 when sticky and f = 0 otherwise
Rounded[neg \in BOOLEAN, w \in Wide, e \in Int, sticky \in BOOLEAN, n \in Nat] ==
  IF n = 0 THEN [neg |-> FALSE, m |-> WZero, e |-> 0]
  ELSE IF n <= MantBits
       THEN [neg |-> neg, m |-> WShl[w, MantBits - n], e |-> e - (MantBits - n)]
  ELSE Normal[neg, WShrRound[w, n - MantBits, sticky], e + (n - MantBits)]

Float[neg \in BOOLEAN, w \in Wide, e \in Int, sticky \in BOOLEAN] ==
  Rounded[neg, w, e, sticky, WBitLen[w]]

\* the float nearest to n / d, for integers |n| < 2^14 and 0 < d < 2^14:
\* a decimal literal (0.45 is 45/100), or the true division of two integers
\* (70 quotient bits by long division, and whether a remainder is left)
FDiv[n \in Int, d \in Nat] ==
  LET a  == IF n < 0 THEN -n ELSE n
      r5 == (a % d) * Base
      r4 == (r5 % d) * Base
      r3 == (r4 % d) * Base
      r2 == (r3 % d) * Base
      r1 == (r2 % d) * Base
  IN  Float[n < 0,
            <<r1 \div d, r2 \div d, r3 \div d, r4 \div d, r5 \div d,
              a \div d, 0, 0>>,
            0 - 5 * LimbBits, r1 % d # 0]

IsZero(x) == x.m = WZero

\* x + y for magnitudes wx and wy in units of 2^e
AddAligned[xneg \in BOOLEAN, wx \in Wide, yneg \in BOOLEAN, wy \in Wide, e \in Int] ==
  IF xneg = yneg THEN Float[xneg, WAdd[wx, wy], e, FALSE]
  ELSE IF WCmp[wx, wy] >= 0 THEN Float[xneg, WSub[wx, wy], e, FALSE]
  ELSE Float[yneg, WSub[wy, wx], e, FALSE]

\* x + y; an operand more than 56 binary places below the other does not
\* change it
FAdd[x \in Floats, y \in Floats] ==
  IF IsZero(x) THEN y
  ELSE IF IsZero(y) THEN x
  ELSE IF x.e - y.e > 56 THEN x
  ELSE IF y.e - x.e > 56 THEN y
  ELSE IF x.e >= y.e
       THEN AddAligned[x.neg, WShl[x.m, x.e - y.e], y.neg, y.m, y.e]
  ELSE AddAligned[x.neg, x.m, y.neg, WShl[y.m, y.e - x.e], x.e]

FNeg[x \in Floats] == [neg |-> ~x.neg /\ ~IsZero(x), m |-> x.m, e |-> x.e]

FSub[x \in Floats, y \in Floats] == FAdd[x, FNeg[y]]

FMul[x \in Floats, y \in Floats] ==
  Float[x.neg # y.neg, WMul[x.m, y.m], x.e + y.e, FALSE]

\* |x| < |y|
MagLt(x, y) ==
  IF IsZero(y) THEN FALSE
  ELSE IF IsZero(x) THEN TRUE
  ELSE x.e < y.e \/ (x.e = y.e /\ WCmp[x.m, y.m] < 0)

\* x < y
FLt[x \in Floats, y \in Floats] ==
  IF x.neg /\ ~y.neg THEN TRUE
  ELSE IF ~x.neg /\ y.neg THEN FALSE
  ELSE IF x.neg THEN MagLt(y, x)
  ELSE MagLt(x, y)

\* Python's min(a, b) and max(a, b) of two numbers: the first argument
\* unless the second is strictly smaller (larger)
FMin[a \in Floats, b \in Floats] == IF FLt[b, a] THEN b ELSE a
FMax[a \in Floats, b \in Floats] == IF FLt[a, b] THEN b ELSE a

\* Python's round(x, 2) for 0 <= x < 2, as a number of hundredths: the exact
\* value of the float, rounded to two decimals, ties to even
Round2[x \in Floats] ==
  IF IsZero(x) \/ x.e < 0 - 110 THEN 0
  ELSE WShrRound[WMulSmall[x.m, 100], 0 - x.e, FALSE][1]

(***************************************************************************)
(* predict_quit_next_5d                                                    *)
(***************************************************************************)
Min(a, b) == IF b < a THEN b ELSE a
Max(a, b) == IF b > a THEN b ELSE a

\* Clamp without its lower bound
Clamp_NoFloor(x, lo, hi) == Min(x, hi)

\* max(lo, min(int(x), hi))
Clamp(x, lo, hi) == Max(lo, Min(x, hi))

IsSpace(c) == c \in {" ", "\t", "\n"}

RECURSIVE LStrip(_)
LStrip(s) ==
  IF Len(s) > 0 /\ IsSpace(SubSeq(s, 1, 1))
  THEN LStrip(SubSeq(s, 2, Len(s))) ELSE s

RECURSIVE RStrip(_)
RStrip(s) ==
  IF Len(s) > 0 /\ IsSpace(SubSeq(s, Len(s), Len(s)))
  THEN RStrip(SubSeq(s, 1, Len(s) - 1)) ELSE s

\* str.strip()
Strip(s) == RStrip(LStrip(s))

\* str(character_class).strip() or "Unknown"
NormClass(character_class) ==
  IF Strip(character_class) = "" THEN "Unknown" ELSE Strip(character_class)

F_1_0  == FDiv[1, 1]
F_0_0  == FDiv[0, 1]
F_0_5  == FDiv[5, 10]

\* the login weight mistaken for the playtime weight
F_0_45_AsPlaytime == FDiv[35, 100]

F_0_45 == FDiv[45, 100]
F_0_35 == FDiv[35, 100]
F_0_20 == FDiv[20, 100]
F_0_05 == FDiv[5, 100]

playtime_cap == 240
level_cap == 6

\* login_risk without the inversion: more logins, more risk
login_risk_Inverted(lf) == FDiv[lf, 14]

login_risk(lf) == FSub[F_1_0, FDiv[lf, 14]]
playtime_risk(pt) == FSub[F_1_0, FDiv[Min(pt, playtime_cap), playtime_cap]]
level_risk(lv) == FSub[F_1_0, FDiv[Min(lv, level_cap), level_cap]]

\* the three terms of the weighted combination
login_term(lf) == FMul[F_0_45, login_risk(lf)]
playtime_term(pt) == FMul[F_0_35, playtime_risk(pt)]
level_term(lv) == FMul[F_0_20, level_risk(lv)]

risk(lf, pt, lv) ==
  FAdd[FAdd[login_term(lf), playtime_term(pt)], level_term(lv)]

\* low_engagement with a strict login threshold
low_engagement_Strict(lf, pt, lv) == (lf < 2) \/ (lv = 0) \/ (pt <= 15)

low_engagement(lf, pt, lv) == (lf <= 2) \/ (lv = 0) \/ (pt <= 15)
high_engagement(lf, pt, lv) == (lf >= 6) /\ (lv >= 2) /\ (pt >= 45)

RiskyClasses == {"Rogue", "Necromancer"}
SteadyClasses == {"Warrior", "Healer"}

\* class_adjustment with the two signs exchanged
class_adjustment_Swapped(lf, pt, lv, cls) ==
  LET a0 == F_0_0
      a1 == IF cls \in RiskyClasses /\ low_engagement(lf, pt, lv)
            THEN FSub[a0, F_0_05] ELSE a0
  IN  IF cls \in SteadyClasses /\ high_engagement(lf, pt, lv)
      THEN FAdd[a1, F_0_05] ELSE a1

class_adjustment(lf, pt, lv, cls) ==
  LET a0 == F_0_0
      a1 == IF cls \in RiskyClasses /\ low_engagement(lf, pt, lv)
            THEN FAdd[a0, F_0_05] ELSE a0
  IN  IF cls \in SteadyClasses /\ high_engagement(lf, pt, lv)
      THEN FSub[a1, F_0_05] ELSE a1

\* prob without the clamp to [0, 1]
prob_Unclamped(lf, pt, lv, cls) ==
  FAdd[risk(lf, pt, lv), class_adjustment(lf, pt, lv, cls)]

prob(lf, pt, lv, cls) ==
  FMax[F_0_0, FMin[F_1_0, FAdd[risk(lf, pt, lv),
                               class_adjustment(lf, pt, lv, cls)]]]

\* label with the threshold at the login weight instead of 0.5
label_WrongThreshold(p) == IF ~FLt[p, F_0_45] THEN "Y" ELSE "N"

label(p) == IF ~FLt[p, F_0_5] THEN "Y" ELSE "N"

risk_factors(lf, pt, lv, cls) ==
     (IF lf <= 2 THEN <<"Very low logins">>
      ELSE IF lf <= 4 THEN <<"Below-average logins">> ELSE <<>>)
  \o (IF pt <= 15 THEN <<"Very low playtime">>
      ELSE IF pt <= 45 THEN <<"Low playtime">> ELSE <<>>)
  \o (IF lv = 0 THEN <<"No progression">>
      ELSE IF lv <= 1 THEN <<"Minimal progression">> ELSE <<>>)
  \o (IF cls \in RiskyClasses /\ low_engagement(lf, pt, lv)
      THEN <<"Class " \o cls \o " with low engagement">> ELSE <<>>)

engagement_factors(lf, pt, lv, cls) ==
     (IF lf >= 6 THEN <<"High logins">>
      ELSE IF lf = 5 THEN <<"Moderate logins">> ELSE <<>>)
  \o (IF pt >= 120 THEN <<"Very high playtime">>
      ELSE IF pt >= 45 THEN <<"Moderate playtime">> ELSE <<>>)
  \o (IF lv >= 4 THEN <<"Strong progression">>
      ELSE IF lv >= 2 THEN <<"Some progression">> ELSE <<>>)
  \o (IF cls \in SteadyClasses /\ high_engagement(lf, pt, lv)
      THEN <<"Class " \o cls \o " with strong engagement">> ELSE <<>>)

\* s[:n]
Take(s, n) == SubSeq(s, 1, Min(n, Len(s)))

\* factors with the two lists exchanged
factors_Exchanged(lab, lf, pt, lv, cls) ==
  Take(IF lab = "N" THEN risk_factors(lf, pt, lv, cls)
       ELSE engagement_factors(lf, pt, lv, cls), 4)

factors(lab, lf, pt, lv, cls) ==
  Take(IF lab = "Y" THEN risk_factors(lf, pt, lv, cls)
       ELSE engagement_factors(lf, pt, lv, cls), 4)

\* returned_factors without the fallback
returned_factors_NoFallback(lab, fs) == fs

\* factors if factors else (["Edge case metrics"] if label == "Y"
\*                          else ["Balanced engagement"])
returned_factors(lab, fs) ==
  IF fs # <<>> THEN fs
  ELSE IF lab = "Y" THEN <<"Edge case metrics">>
  ELSE <<"Balanced engagement">>

\* the returned dictionary; probability is round(prob, 2), in hundredths
predict_quit_next_5d(login_frequency_per_week, avg_daily_playtime_minutes, levels_gained_last_7d, character_class) ==
  LET lf  == Clamp(login_frequency_per_week, 0, 14)
      pt  == Clamp(avg_daily_playtime_minutes, 0, 600)
      lv  == Clamp(levels_gained_last_7d, 0, 100)
      cls == NormClass(character_class)
      p   == prob(lf, pt, lv, cls)
      lab == label(p)
  IN  [quit_next_5d |-> lab,
       probability  |-> Round2[p],
       factors      |-> returned_factors(lab, factors(lab, lf, pt, lv, cls))]

(***************************************************************************)
(* One call of the function: the caller's arguments, then the result       *)
(***************************************************************************)
VARIABLES args, result, pc

vars == <<args, result, pc>>

\* how far beyond the documented ranges the arguments go
Beyond == 2

LfInputs == (0 - Beyond)..(14 + Beyond)

\* the playtimes around the thresholds of the rules and of the scenarios
PtPoints == {0, 15, 16, 40, 45, 46, 90, 119, 120, 240, 241, 600}

PtInputs == PtPoints \cup ((0 - Beyond)..(-1)) \cup (601..(600 + Beyond))

LvInputs ==
  ((0 - Beyond)..(level_cap + 1)) \cup {100} \cup (101..(100 + Beyond))

ClassInputs == {"Rogue", "Necromancer", "Warrior", " Healer ", "Mage", "  "}

NoResult == [quit_next_5d |-> "?", probability |-> 0, factors |-> <<>>]

Init ==
  /\ args \in [login_frequency_per_week   : LfInputs,
               avg_daily_playtime_minutes : PtInputs,
               levels_gained_last_7d      : LvInputs,
               character_class            : ClassInputs]
  /\ result = NoResult
  /\ pc = "call"

Predict ==
  /\ pc = "call"
  /\ result' = predict_quit_next_5d(args.login_frequency_per_week,
                                    args.avg_daily_playtime_minutes,
                                    args.levels_gained_last_7d,
                                    args.character_class)
  /\ pc' = "return"
  /\ UNCHANGED args

Next == Predict

Spec == Init /\ [][Next]_vars

(***************************************************************************)
(* Properties                                                              *)
(***************************************************************************)
Done == pc = "return"

\* the arguments as the function sees them after clamping and stripping
in_lf  == Clamp(args.login_frequency_per_week, 0, 14)
in_pt  == Clamp(args.avg_daily_playtime_minutes, 0, 600)
in_lv  == Clamp(args.levels_gained_last_7d, 0, 100)
in_cls == NormClass(args.character_class)

\* the range clamp, written out
Within(x, lo, hi) == IF x < lo THEN lo ELSE IF x > hi THEN hi ELSE x

\* C1 as stated: the label is "Y" exactly when the returned, rounded
\* probability is at least 0.50
C1_LabelIffRoundedProbability ==
  Done => (result.quit_next_5d = "Y" <=> result.probability >= 50)

\* C1 as amended: the label is decided on the unrounded probability, so a
\* "Y" comes with a returned probability of at least 0.50 and an "N" with one
\* of at most 0.50 (an "N" with exactly 0.50 is possible)
C1_LabelBoundsRoundedProbability ==
  Done => /\ result.quit_next_5d \in {"Y", "N"}
          /\ (result.quit_next_5d = "Y" => result.probability >= 50)
          /\ (result.quit_next_5d = "N" => result.probability <= 50)

C1_Witness ==
  Done /\ result.quit_next_5d = "N" /\ result.probability = 50

\* C2: the returned probability is a whole number of hundredths between
\* 0.00 and 1.00, also when the adjustment takes the weighted risk outside
\* [0, 1]
C2_ProbabilityInUnitInterval ==
  Done => result.probability \in 0..100

C2_Witness ==
  /\ Done
  /\ FLt[F_1_0, FAdd[risk(in_lf, in_pt, in_lv),
                     class_adjustment(in_lf, in_pt, in_lv, in_cls)]]
  /\ result.probability = 100

\* C3: the returned factors are between one and four, and a single fallback
\* string stands in whenever the list chosen by the label is empty
C3_FactorsBetweenOneAndFour ==
  Done => /\ Len(result.factors) \in 1..4
          /\ (factors(result.quit_next_5d, in_lf, in_pt, in_lv, in_cls) = <<>>
                => /\ Len(result.factors) = 1
                   /\ result.factors[1]
                        \in {"Edge case metrics", "Balanced engagement"})

C3_Witness ==
  /\ Done
  /\ factors(result.quit_next_5d, in_lf, in_pt, in_lv, in_cls) = <<>>
  /\ Len(result.factors) = 1

\* C4: an argument outside its range gives the result of the nearest bound
\* of the range, for each numeric argument with the others fixed, and
\* clamping twice is clamping once
C4_OutOfRangeIsClamped ==
  Done =>
    LET a == args
    IN  /\ a.login_frequency_per_week \notin 0..14 =>
              result = predict_quit_next_5d(
                         Within(a.login_frequency_per_week, 0, 14),
                         a.avg_daily_playtime_minutes,
                         a.levels_gained_last_7d, a.character_class)
        /\ a.avg_daily_playtime_minutes \notin 0..600 =>
              result = predict_quit_next_5d(
                         a.login_frequency_per_week,
                         Within(a.avg_daily_playtime_minutes, 0, 600),
                         a.levels_gained_last_7d, a.character_class)
        /\ a.levels_gained_last_7d \notin 0..100 =>
              result = predict_quit_next_5d(
                         a.login_frequency_per_week,
                         a.avg_daily_playtime_minutes,
                         Within(a.levels_gained_last_7d, 0, 100),
                         a.character_class)
        /\ Clamp(in_lf, 0, 14) = in_lf
        /\ Clamp(in_pt, 0, 600) = in_pt
        /\ Clamp(in_lv, 0, 100) = in_lv

C4_Witness ==
  /\ Done
  /\ args.login_frequency_per_week < 0
  /\ args.avg_daily_playtime_minutes > 600
  /\ args.levels_gained_last_7d > 100
  /\ result.probability > 0

\* C5: with playtime, levels and class fixed, one more login a week never
\* gives a higher returned probability, nor turns an "N" into a "Y"; step by
\* step, the same holds of any higher login frequency
C5_MonotoneInLogins ==
  Done =>
    LET r2 == predict_quit_next_5d(args.login_frequency_per_week + 1,
                                   args.avg_daily_playtime_minutes,
                                   args.levels_gained_last_7d,
                                   args.character_class)
    IN  /\ r2.probability <= result.probability
        /\ ~(result.quit_next_5d = "N" /\ r2.quit_next_5d = "Y")

\* the adjustment of a risky class is on at 2 logins and off at 3
C5_Witness ==
  /\ Done
  /\ args.login_frequency_per_week = 2
  /\ in_cls \in RiskyClasses
  /\ ~low_engagement(3, in_pt, in_lv)
  /\ result.probability
       > predict_quit_next_5d(3, args.avg_daily_playtime_minutes,
                              args.levels_gained_last_7d,
                              args.character_class).probability

Scenario2 ==
  [login_frequency_per_week |-> 7, avg_daily_playtime_minutes |-> 90,
   levels_gained_last_7d |-> 4, character_class |-> "Warrior"]

Scenario3 ==
  [login_frequency_per_week |-> 2, avg_daily_playtime_minutes |-> 40,
   levels_gained_last_7d |-> 2, character_class |-> "Necromancer"]

Scenario2Factors ==
  <<"High logins", "Moderate playtime", "Strong progression",
    "Class Warrior with strong engagement">>

\* C6 as stated: 7 logins, 90 minutes, 4 levels, Warrior: high engagement,
\* 0.43, "N", and the four engagement factors in order
C6_Scenario2 ==
  (Done /\ args = Scenario2) =>
     /\ high_engagement(7, 90, 4)
     /\ result = [quit_next_5d |-> "N", probability |-> 43,
                  factors |-> Scenario2Factors]

\* C6 as amended: the same, with a returned probability of 0.46 (the level
\* sub-score of 4 levels is 1 - 4/6 = 0.3333, not 0.1667)
C6_Scenario2Amended ==
  (Done /\ args = Scenario2) =>
     /\ high_engagement(7, 90, 4)
     /\ result = [quit_next_5d |-> "N", probability |-> 46,
                  factors |-> Scenario2Factors]

C6_Witness == Done /\ args = Scenario2 /\ Len(result.factors) = 4

\* C7: 2 logins, 40 minutes, 2 levels, Necromancer: 0.86, "Y", and three
\* risk factors, none for progression, the class factor last
C7_Scenario3 ==
  (Done /\ args = Scenario3) =>
     /\ low_engagement(2, 40, 2)
     /\ result = [quit_next_5d |-> "Y",
                  probability  |-> 86,
                  factors      |-> <<"Very low logins", "Low playtime",
                                     "Class Necromancer with low engagement">>]

C7_Witness == Done /\ args = Scenario3 /\ Len(result.factors) = 3

RiskStrings(cls) ==
  {"Very low logins", "Below-average logins", "Very low playtime",
   "Low playtime", "No progression", "Minimal progression",
   "Class " \o cls \o " with low engagement"}

EngagementStrings(cls) ==
  {"High logins", "Moderate logins", "Very high playtime",
   "Moderate playtime", "Strong progression", "Some progression",
   "Class " \o cls \o " with strong engagement"}

\* the rule group of a factor string: logins, playtime, progression, class
Group(f) ==
  IF f \in {"Very low logins", "Below-average logins", "High logins",
            "Moderate logins"} THEN 1
  ELSE IF f \in {"Very low playtime", "Low playtime", "Very high playtime",
                 "Moderate playtime"} THEN 2
  ELSE IF f \in {"No progression", "Minimal progression",
                 "Strong progression", "Some progression"} THEN 3
  ELSE 4

InGroupOrder(fs) ==
  \A i \in 1..Len(fs) : \A j \in 1..Len(fs) :
    i < j => Group(fs[i]) < Group(fs[j])

\* C8: a "Y" returns risk strings only, or the one fallback "Edge case
\* metrics"; an "N" returns engagement strings only, or the one fallback
\* "Balanced engagement"; the fallback appears exactly when the chosen list
\* is empty; the entries are in the order logins, playtime, progression,
\* class, at most one of each
C8_FactorsFollowLabel ==
  Done =>
    LET fs    == result.factors
        empty == IF result.quit_next_5d = "Y"
                 THEN risk_factors(in_lf, in_pt, in_lv, in_cls) = <<>>
                 ELSE engagement_factors(in_lf, in_pt, in_lv, in_cls) = <<>>
        own   == IF result.quit_next_5d = "Y" THEN RiskStrings(in_cls)
                 ELSE EngagementStrings(in_cls)
        fallback == IF result.quit_next_5d = "Y" THEN "Edge case metrics"
                    ELSE "Balanced engagement"
    IN  /\ empty => fs = <<fallback>>
        /\ ~empty => /\ \A i \in 1..Len(fs) : fs[i] \in own
                     /\ InGroupOrder(fs)

C8_Witness ==
  /\ Done
  /\ result.quit_next_5d = "Y"
  /\ Len(result.factors) = 4
  /\ engagement_factors(in_lf, in_pt, in_lv, in_cls) # <<>>

\* C9: the returned factors are at least two and at most four
C9_TwoToFourFactors ==
  Done => Len(result.factors) \in 2..4

EdgeCase ==
  [login_frequency_per_week |-> 5, avg_daily_playtime_minutes |-> 46,
   levels_gained_last_7d |-> 2, character_class |-> "Mage"]

\* C10: "Balanced engagement" is never returned: an "N" always has an
\* engagement factor, while "Edge case metrics" is returned for 5 logins,
\* 46 minutes, 2 levels, Mage
C10_BalancedEngagementUnreachable ==
  Done => /\ result.factors # <<"Balanced engagement">>
          /\ (result.quit_next_5d = "N"
                => engagement_factors(in_lf, in_pt, in_lv, in_cls) # <<>>)
          /\ (args = EdgeCase => result.factors = <<"Edge case metrics">>)

\* no engagement rule fires, and the label is "Y"
C10_Witness ==
  /\ Done
  /\ engagement_factors(in_lf, in_pt, in_lv, in_cls) = <<>>
  /\ result.quit_next_5d = "Y"
  /\ result.factors # <<"Edge case metrics">>

====
